---- MODULE Spec2Model ----
(***************************************************************************)
(* A model of safe-math-rs: the checked-arithmetic runtime (src/src), the  *)
(* #[safe_math] rewriting macro (src/safe_math_macros/src/lib.rs) and the  *)
(* SafeMathOps derive (derive/mod.rs of the two macro crates).             *)
(***************************************************************************)
EXTENDS Integers, Sequences, FiniteSets, TLC

VARIABLES
    ty,      \* the numeric type T of the checked call under way
    a,       \* first operand of the call
    b,       \* second operand of the call
    op,      \* which free function was called ("none" before the call)
    ret,     \* the Result<T, SafeMathError> the call returned
    item,    \* the body of the #[safe_math] function under expansion
    out,     \* the body the macro emitted for it
    idents,  \* the identifiers generate_unique_ident returned so far
    nfn,     \* how many functions this macro process expanded
    phase,   \* "source", "expanded" or "returned"
    mem,     \* the memory of the rewritten function while it runs
    outcome, \* what the rewritten function returned
    crate,   \* the derive module the build compiles ("none": no type derives)
    input,   \* the DeriveInput of the type that derives SafeMathOps
    derived, \* what derive_safe_math_ops emitted for it
    threads  \* the checked call each thread of a concurrent caller is in

opsVars == <<ty, a, b, op, ret>>

macroVars == <<item, out, idents, nfn, phase, mem, outcome>>

deriveVars == <<crate, input, derived>>

vars == <<ty, a, b, op, ret, item, out, idents, nfn, phase, mem, outcome,
          crate, input, derived, threads>>

----------------------------------------------------------------------------
(* Bounds of the model *)

\* operands are taken within Edge of MIN, of zero and of MAX of each type
Edge == 2

\* #[safe_math] functions expanded by one macro process
MaxFns == 2

\* the longest chain of operands in a generated test function
MaxOperands == 3

\* the longest operation list in one #[SafeMathOps(...)] attribute
MaxEntries == 3

\* the largest finite magnitude of the floating-point values of the model
FloatMax == 3

----------------------------------------------------------------------------
(* error.rs: SafeMathError, and Result<T, SafeMathError> *)

SafeMathError == {"Overflow", "DivisionByZero", "InfiniteOrNaN", "NotImplemented"}

Ok(v) == [ok |-> TRUE, v |-> v, err |-> "none"]

Err(e) == [ok |-> FALSE, v |-> 0, err |-> e]

NoResult == [ok |-> FALSE, v |-> 0, err |-> "none"]

\* Option<T> as returned by the checked_* primitives
Some(v) == [some |-> TRUE, v |-> v]

None == [some |-> FALSE, v |-> 0]

----------------------------------------------------------------------------
(* impls.rs, mod sealed: the built-in integer types.  The widths above 16   *)
(* bits behave alike; the products of their extreme values do not fit the  *)
(* integers the model checker computes with, and neither do those of u16.  *)

RECURSIVE Pow2(_)
Pow2(n) == IF n = 0 THEN 1 ELSE 2 * Pow2(n - 1)

IntTypes ==
    { [name |-> "u8",  signed |-> FALSE, bits |-> 8],
      [name |-> "i8",  signed |-> TRUE,  bits |-> 8],
      [name |-> "i16", signed |-> TRUE,  bits |-> 16] }

MIN(t) == IF t.signed THEN -Pow2(t.bits - 1) ELSE 0

MAX(t) == IF t.signed THEN Pow2(t.bits - 1) - 1 ELSE Pow2(t.bits) - 1

InRange(t, x) == MIN(t) <= x /\ x <= MAX(t)

Abs(x) == IF x < 0 THEN -x ELSE x

Sgn(x) == IF x < 0 THEN -1 ELSE IF x > 0 THEN 1 ELSE 0

\* two's complement wrap-around of x into the range of t
Wrap(t, x) ==
    LET m == Pow2(t.bits)
        r == x % m
    IN  IF t.signed /\ r >= Pow2(t.bits - 1) THEN r - m ELSE r

----------------------------------------------------------------------------
(* The primitives impls.rs line 94 calls through num_traits::Checked*:     *)
(* they compute the wrapped result and an overflow flag, and return None   *)
(* when the flag is set.  Division and remainder truncate toward zero.     *)

TruncDivFloor(x, y) == x \div y

TruncDiv(x, y) == Sgn(x) * Sgn(y) * (Abs(x) \div Abs(y))

TruncRem(x, y) == Sgn(x) * (Abs(x) % Abs(y))

\* the unchecked primitive: the sum wrapped into the type, never None
wrapping_add(t, x, y) == Some(Wrap(t, x + y))

checked_add(t, x, y) ==
    IF InRange(t, x + y) THEN Some(Wrap(t, x + y)) ELSE None

checked_sub(t, x, y) ==
    IF InRange(t, x - y) THEN Some(Wrap(t, x - y)) ELSE None

checked_mul(t, x, y) ==
    IF InRange(t, x * y) THEN Some(Wrap(t, x * y)) ELSE None

checked_div(t, x, y) ==
    IF y = 0 \/ (t.signed /\ x = MIN(t) /\ y = -1)
    THEN None
    ELSE Some(TruncDiv(x, y))

checked_rem(t, x, y) ==
    IF y = 0 \/ (t.signed /\ x = MIN(t) /\ y = -1)
    THEN None
    ELSE Some(TruncRem(x, y))

\* Option::ok_or
ok_or(o, e) == IF o.some THEN Ok(o.v) ELSE Err(e)

----------------------------------------------------------------------------
(* impls.rs 101-142: the table impl_safe_ops! is expanded with; its last    *)
(* column is the error each method maps None to.                           *)

ErrAllOverflow(method) == "Overflow"

impl_safe_ops_err(method) ==
    CASE method = "safe_add" -> "Overflow"
      [] method = "safe_sub" -> "Overflow"
      [] method = "safe_mul" -> "Overflow"
      [] method = "safe_div" -> "DivisionByZero"
      [] method = "safe_rem" -> "DivisionByZero"

----------------------------------------------------------------------------
(* impls.rs 144-200: the built-in floating-point types.  A value is a       *)
(* number of -FloatMax .. FloatMax (the finite values, here the integers    *)
(* of the range), INFINITY, NEG_INFINITY or NAN.  The plain operators       *)
(* follow IEEE 754: a result beyond the largest finite magnitude is an      *)
(* infinity, and an operation without a value (inf - inf, 0 * inf, 0 / 0,   *)
(* inf / inf, x % 0, inf % x) is NAN.                                       *)

FloatTypes ==
    { [name |-> "f32", signed |-> TRUE, bits |-> 32],
      [name |-> "f64", signed |-> TRUE, bits |-> 64] }

INFINITY == FloatMax + 1

NEG_INFINITY == -(FloatMax + 1)

NAN == FloatMax + 2

FloatValues == (-FloatMax .. FloatMax) \cup {INFINITY, NEG_INFINITY, NAN}

is_not_nan(x) == x # NAN

\* f32::is_finite, f64::is_finite (impls.rs 165)
is_finite(x) == -FloatMax <= x /\ x <= FloatMax

is_infinite(x) == x \in {INFINITY, NEG_INFINITY}

\* the infinity of the sign of a product or quotient of x and y
SignedInfinity(x, y) == IF (x < 0) # (y < 0) THEN NEG_INFINITY ELSE INFINITY

\* an exact result r brought into the values of the type
RoundFloat(r) ==
    IF r > FloatMax THEN INFINITY
    ELSE IF r < -FloatMax THEN NEG_INFINITY
    ELSE r

\* impls.rs 164, self + rhs
float_add(x, y) ==
    IF x = NAN \/ y = NAN THEN NAN
    ELSE IF is_infinite(x) /\ is_infinite(y) THEN (IF x = y THEN x ELSE NAN)
    ELSE IF is_infinite(x) THEN x
    ELSE IF is_infinite(y) THEN y
    ELSE RoundFloat(x + y)

\* impls.rs 164, self - rhs
float_sub(x, y) == float_add(x, IF y = NAN THEN NAN ELSE -y)

\* impls.rs 164, self * rhs
float_mul(x, y) ==
    IF x = NAN \/ y = NAN THEN NAN
    ELSE IF is_infinite(x) \/ is_infinite(y)
    THEN (IF x = 0 \/ y = 0 THEN NAN ELSE SignedInfinity(x, y))
    ELSE RoundFloat(x * y)

\* impls.rs 164, self / rhs: division by zero gives an infinity, or NAN for
\* 0 / 0; a finite quotient is rounded to a value of the type
float_div(x, y) ==
    IF x = NAN \/ y = NAN THEN NAN
    ELSE IF is_infinite(x) THEN (IF is_infinite(y) THEN NAN ELSE SignedInfinity(x, y))
    ELSE IF is_infinite(y) THEN 0
    ELSE IF y = 0 THEN (IF x = 0 THEN NAN ELSE SignedInfinity(x, y))
    ELSE TruncDiv(x, y)

\* impls.rs 164, self % rhs: the remainder has the sign of the dividend
float_rem(x, y) ==
    IF x = NAN \/ y = NAN THEN NAN
    ELSE IF is_infinite(x) \/ y = 0 THEN NAN
    ELSE IF is_infinite(y) THEN x
    ELSE TruncRem(x, y)

\* bool::then
then(c, v) == IF c THEN Some(v) ELSE None

impl_safe_float_ops_overflow(res) == ok_or(then(is_finite(res), res), "Overflow")

\* impls.rs 163-166: res.is_finite().then(|| res).ok_or(SafeMathError::InfiniteOrNaN)
impl_safe_float_ops(res) == ok_or(then(is_finite(res), res), "InfiniteOrNaN")

----------------------------------------------------------------------------
(* The trait methods: of a floating-point type by impl_safe_float_ops!, of *)
(* an integer type by impl_safe_ops!.                                      *)

\* impls.rs 80-99: fn $method_name(self, rhs) { self.$checked_method(&rhs).ok_or($err) }
\* impls.rs 144-200: fn $method(self, rhs) { let res = self $op rhs; ... }
SafeAdd_safe_add(t, x, y) ==
    IF t \in FloatTypes THEN impl_safe_float_ops(float_add(x, y))
    ELSE ok_or(checked_add(t, x, y), impl_safe_ops_err("safe_add"))

SafeSub_safe_sub(t, x, y) ==
    IF t \in FloatTypes THEN impl_safe_float_ops(float_sub(x, y))
    ELSE ok_or(checked_sub(t, x, y), impl_safe_ops_err("safe_sub"))

SafeMul_safe_mul(t, x, y) ==
    IF t \in FloatTypes THEN impl_safe_float_ops(float_mul(x, y))
    ELSE ok_or(checked_mul(t, x, y), impl_safe_ops_err("safe_mul"))

SafeDiv_safe_div(t, x, y) ==
    IF t \in FloatTypes THEN impl_safe_float_ops(float_div(x, y))
    ELSE ok_or(checked_div(t, x, y), impl_safe_ops_err("safe_div"))

SafeRem_safe_rem(t, x, y) ==
    IF t \in FloatTypes THEN impl_safe_float_ops(float_rem(x, y))
    ELSE ok_or(checked_rem(t, x, y), impl_safe_ops_err("safe_rem"))

\* impls.rs 26-78: the free functions pub fn $op<T: $trait>(a, b) { a.$op(b) }
safe_add(t, x, y) == SafeAdd_safe_add(t, x, y)

safe_sub(t, x, y) == SafeSub_safe_sub(t, x, y)

safe_mul(t, x, y) == SafeMul_safe_mul(t, x, y)

safe_div(t, x, y) == SafeDiv_safe_div(t, x, y)

safe_rem(t, x, y) == SafeRem_safe_rem(t, x, y)

SafeMathOps_safe_div_as_rem(t, x, y) == SafeRem_safe_rem(t, x, y)

\* impls.rs 202-227: impl<T> SafeMathOps for T, each method
\* <Self as SafeAdd>::safe_add(self, rhs) and its like
SafeMathOps_safe_add(t, x, y) == SafeAdd_safe_add(t, x, y)

SafeMathOps_safe_sub(t, x, y) == SafeSub_safe_sub(t, x, y)

SafeMathOps_safe_mul(t, x, y) == SafeMul_safe_mul(t, x, y)

SafeMathOps_safe_div(t, x, y) == SafeDiv_safe_div(t, x, y)

SafeMathOps_safe_rem(t, x, y) == SafeRem_safe_rem(t, x, y)

----------------------------------------------------------------------------
(* #[derive(SafeMathOps)]: the two derive modules of the source tree,      *)
(* safe_math_macros/src/derive/mod.rs and safe-math-macros/src/derive/     *)
(* mod.rs.  Which of them a build compiles is not fixed by the tree, so    *)
(* the model leaves it open.                                               *)

DeriveCrates == {"safe_math_macros", "safe-math-macros"}

\* derive/mod.rs 7
SAFE_MATH_OPS_ATTRIBUTE_NAME == "SafeMathOps"

\* derive/mod.rs 10
ALLOWED_OPS == <<"add", "sub", "mul", "div", "rem">>

\* the span a diagnostic points at: attribute attr of the type (0: the whole
\* input) and argument arg of its list (0: the attribute itself)
Diagnostic(kind, attr, arg) == [kind |-> kind, attr |-> attr, arg |-> arg]

NoDiagnostic == Diagnostic("none", 0, 0)

\* the state of the loops of expand_derive_safe_math_ops: the operations
\* collected so far, or the error it returned with
Collected(checked_ops) == [ok |-> TRUE, checked_ops |-> checked_ops, diag |-> NoDiagnostic]

Rejected(diag) == [ok |-> FALSE, checked_ops |-> {}, diag |-> diag]

is_allowed_any(ident_str) == TRUE

\* derive/mod.rs 84 (49): the arm "add" | "sub" | "mul" | "div" | "rem"
is_allowed(ident_str) == \E i \in 1 .. Len(ALLOWED_OPS) : ALLOWED_OPS[i] = ident_str

insert_replacing(checked_ops, ident_str) == {ident_str}

\* derive/mod.rs 85 (50): HashSet::insert
insert(checked_ops, ident_str) == checked_ops \cup {ident_str}

\* derive/mod.rs 80-114 (45-79): for arg in parsed_args, from argument i on.
\* An argument is a path, the sequence of its segments; get_ident is its
\* only segment.
RECURSIVE for_arg(_, _, _, _)
for_arg(parsed_args, attr, i, checked_ops) ==
    IF i > Len(parsed_args) THEN Collected(checked_ops)
    ELSE LET arg == parsed_args[i]
         IN  IF Len(arg) = 1
             THEN LET ident_str == arg[1]
                  IN  IF is_allowed(ident_str)
                      THEN IF ident_str \in checked_ops
                           THEN Rejected(Diagnostic("Duplicate operation", attr, i))
                           ELSE for_arg(parsed_args, attr, i + 1,
                                        insert(checked_ops, ident_str))
                      ELSE Rejected(Diagnostic("Unknown operation", attr, i))
             ELSE Rejected(Diagnostic("Expected a simple identifier", attr, i))

\* derive/mod.rs 70-126 (35-91): for attr in &input.attrs, from attribute j on
RECURSIVE for_attr(_, _, _)
for_attr(attrs, j, checked_ops) ==
    IF j > Len(attrs) THEN Collected(checked_ops)
    ELSE IF attrs[j].path # SAFE_MATH_OPS_ATTRIBUTE_NAME
    THEN for_attr(attrs, j + 1, checked_ops)
    ELSE IF attrs[j].meta # "List"
    THEN Rejected(Diagnostic("must be used with a list of operations", j, 0))
    \* parse_args_with(..)? : the tokens of the list are not paths
    ELSE IF ~attrs[j].parses
    THEN Rejected(Diagnostic("parse error", j, 0))
    ELSE LET r == for_arg(attrs[j].args, j, 1, checked_ops)
         IN  IF r.ok THEN for_attr(attrs, j + 1, r.checked_ops) ELSE r

\* the body of a generated method: an unconditional error, the type's checked
\* primitive with the error for "no value" (err0 when rhs == Self::default(),
\* err otherwise), or a call of the method of another trait
ErrBody(e) == [k |-> "Err", method |-> "", of |-> "", err |-> e, err0 |-> e]

CheckedBody(method, e, e0) ==
    [k |-> "checked", method |-> method, of |-> "", err |-> e, err0 |-> e0]

DelegateBody(trait, method) ==
    [k |-> "delegate", method |-> method, of |-> trait, err |-> "", err0 |-> ""]

Impl(trait, methods) == [trait |-> trait, methods |-> methods]

\* the trait of each operation (safe-math-macros/src/derive/mod.rs 139-143)
TraitOf(o) ==
    CASE o = "add" -> "SafeAdd"
      [] o = "sub" -> "SafeSub"
      [] o = "mul" -> "SafeMul"
      [] o = "div" -> "SafeDiv"
      [] o = "rem" -> "SafeRem"

generate_op_impls_overflow(checked_ops, o) == ErrBody("Overflow")

\* safe_math_macros/src/derive/mod.rs 19-30: the body of safe_<o>
generate_op_impls(checked_ops, o) ==
    IF o \in checked_ops
    THEN CheckedBody("checked_" \o o, "Overflow", "Overflow")
    ELSE ErrBody("NotImplemented")

\* safe-math-macros/src/derive/mod.rs 19-29: the body of safe_<o>
gen_impl(checked_ops, o) ==
    IF o \in checked_ops
    THEN DelegateBody(TraitOf(o), "safe_" \o o)
    ELSE ErrBody("NotImplemented")

\* safe-math-macros/src/derive/mod.rs 146-184: the error expression of each
\* operation, when the divisor is not and when it is Self::default()
err_expr(o) ==
    CASE o \in {"add", "sub", "mul"} -> <<"Overflow", "Overflow">>
      [] o = "div" -> <<"Overflow", "DivisionByZero">>
      [] o = "rem" -> <<"DivisionByZero", "DivisionByZero">>

\* safe-math-macros/src/derive/mod.rs 32-65: one impl of the operation's
\* trait for each requested operation
gen_extra_impls(checked_ops) ==
    { Impl(TraitOf(o),
           ("safe_" \o o) :> CheckedBody("checked_" \o o, err_expr(o)[1], err_expr(o)[2])) :
        o \in checked_ops }

\* derive/mod.rs 186-215 (111-133): impl ::safe_math::SafeMathOps for #name,
\* followed in the newer module by #extra_impls
quote(crate_name, checked_ops) ==
    IF crate_name = "safe_math_macros"
    THEN { Impl("SafeMathOps",
                [m \in { "safe_" \o ALLOWED_OPS[i] : i \in 1 .. Len(ALLOWED_OPS) } |->
                    generate_op_impls(checked_ops,
                        ALLOWED_OPS[CHOOSE i \in 1 .. Len(ALLOWED_OPS) :
                                        "safe_" \o ALLOWED_OPS[i] = m])]) }
    ELSE { Impl("SafeMathOps",
                [m \in { "safe_" \o ALLOWED_OPS[i] : i \in 1 .. Len(ALLOWED_OPS) } |->
                    gen_impl(checked_ops,
                        ALLOWED_OPS[CHOOSE i \in 1 .. Len(ALLOWED_OPS) :
                                        "safe_" \o ALLOWED_OPS[i] = m])]) }
         \cup gen_extra_impls(checked_ops)

\* derive/mod.rs 67-216 (32-134): Ok(tokens) or Err(diagnostic)
expand_derive_safe_math_ops(crate_name, derive_input) ==
    LET r == for_attr(derive_input.attrs, 1, {})
    IN  IF ~r.ok THEN [ok |-> FALSE, diag |-> r.diag, impls |-> {}]
        ELSE IF r.checked_ops = {}
        THEN [ok |-> FALSE,
              diag |-> Diagnostic("requires at least one operation", 0, 0),
              impls |-> {}]
        ELSE [ok |-> TRUE, diag |-> NoDiagnostic,
              impls |-> quote(crate_name, r.checked_ops)]

derive_keeping_add(crate_name, derive_input) ==
    LET r == expand_derive_safe_math_ops(crate_name, derive_input)
    IN  IF r.ok THEN r ELSE [r EXCEPT !.impls = quote(crate_name, {"add"})]

\* derive/mod.rs 12-17: the tokens of the implementation, or of the
\* compile_error! the diagnostic turns into and nothing else
derive_safe_math_ops(crate_name, derive_input) ==
    expand_derive_safe_math_ops(crate_name, derive_input)

\* nothing derived yet
NoDerive == [ok |-> FALSE, diag |-> NoDiagnostic, impls |-> {}]

NoInput == [ident |-> "", attrs |-> <<>>]

\* examples/derive/src/main.rs 36-55: the checked primitives of the deriving
\* type wrap those of its integer field
checked_method(t, method, x, y) ==
    CASE method = "checked_add" -> checked_add(t, x, y)
      [] method = "checked_sub" -> checked_sub(t, x, y)
      [] method = "checked_mul" -> checked_mul(t, x, y)
      [] method = "checked_div" -> checked_div(t, x, y)
      [] method = "checked_rem" -> checked_rem(t, x, y)

implements(impls, trait) == \E i \in impls : i.trait = trait

\* a call of a generated method on two values of the deriving type, whose
\* Self::default() is the wrapper of 0
RECURSIVE call_method(_, _, _, _, _, _)
call_method(impls, trait, method, t, x, y) ==
    LET body == (CHOOSE i \in impls : i.trait = trait).methods[method]
    IN  CASE body.k = "Err" -> Err(body.err)
          [] body.k = "checked" ->
                LET o == checked_method(t, body.method, x, y)
                IN  IF o.some THEN Ok(o.v)
                    ELSE Err(IF y = 0 THEN body.err0 ELSE body.err)
          [] body.k = "delegate" ->
                call_method(impls, body.of, body.method, t, x, y)

\* the part of the state the derive owns, while no type derives
\* the threads of a concurrent caller, and a thread outside any call
Threads == {"t1", "t2"}

IdleThread ==
    [pc |-> "idle", ty |-> "", op |-> "none", a |-> 0, b |-> 0,
     opt |-> None, ret |-> NoResult]

\* no thread calls the library
ThreadsIdle == threads = [t \in Threads |-> IdleThread]

DeriveIdle ==
    /\ crate = "none"
    /\ input = NoInput
    /\ derived = NoDerive

----------------------------------------------------------------------------
(* The part of the state the macro owns, while only the library is used *)

MacroIdle ==
    /\ item = <<>>
    /\ out = <<>>
    /\ idents = <<>>
    /\ nfn = 0
    /\ phase = "idle"
    /\ mem = <<>>
    /\ outcome = NoResult

----------------------------------------------------------------------------
(* The runtime library as a state machine: a caller holds two operands of  *)
(* a built-in integer type and calls one of the five free functions.       *)

\* values the tests and the documentation call the functions with
Scenario == {3, 5, 6, 10, 20, 30, -10, 100}

Operands(t) ==
    { x \in (MIN(t) .. MIN(t) + Edge) \cup (-Edge .. Edge)
            \cup (MAX(t) - Edge .. MAX(t)) \cup Scenario : InRange(t, x) }

InitOps ==
    /\ ty \in IntTypes
    /\ a \in Operands(ty)
    /\ b \in Operands(ty)
    /\ op = "none"
    /\ ret = NoResult
    /\ MacroIdle
    /\ DeriveIdle
    /\ ThreadsIdle

CallSafeAdd ==
    /\ op = "none"
    /\ op' = "safe_add"
    /\ ret' = safe_add(ty, a, b)
    /\ UNCHANGED <<ty, a, b>>
    /\ UNCHANGED macroVars
    /\ UNCHANGED deriveVars
    /\ UNCHANGED threads

CallSafeSub ==
    /\ op = "none"
    /\ op' = "safe_sub"
    /\ ret' = safe_sub(ty, a, b)
    /\ UNCHANGED <<ty, a, b>>
    /\ UNCHANGED macroVars
    /\ UNCHANGED deriveVars
    /\ UNCHANGED threads

CallSafeMul ==
    /\ op = "none"
    /\ op' = "safe_mul"
    /\ ret' = safe_mul(ty, a, b)
    /\ UNCHANGED <<ty, a, b>>
    /\ UNCHANGED macroVars
    /\ UNCHANGED deriveVars
    /\ UNCHANGED threads

CallSafeDiv ==
    /\ op = "none"
    /\ op' = "safe_div"
    /\ ret' = safe_div(ty, a, b)
    /\ UNCHANGED <<ty, a, b>>
    /\ UNCHANGED macroVars
    /\ UNCHANGED deriveVars
    /\ UNCHANGED threads

CallSafeRem ==
    /\ op = "none"
    /\ op' = "safe_rem"
    /\ ret' = safe_rem(ty, a, b)
    /\ UNCHANGED <<ty, a, b>>
    /\ UNCHANGED macroVars
    /\ UNCHANGED deriveVars
    /\ UNCHANGED threads

NextOps ==
    \/ CallSafeAdd
    \/ CallSafeSub
    \/ CallSafeMul
    \/ CallSafeDiv
    \/ CallSafeRem

SpecOps == InitOps /\ [][NextOps]_vars

\* tests/property_tests.rs 39-57: the same caller with two operands of a
\* floating-point type
InitFloat ==
    /\ ty \in FloatTypes
    /\ a \in FloatValues
    /\ b \in FloatValues
    /\ op = "none"
    /\ ret = NoResult
    /\ MacroIdle
    /\ DeriveIdle
    /\ ThreadsIdle

\* the library called on the operands of any built-in numeric type
InitNumeric == InitOps \/ InitFloat

SpecNumeric == InitNumeric /\ [][NextOps]_vars

----------------------------------------------------------------------------
(* Claims about the runtime library *)

Exact(o, x, y) ==
    CASE o = "safe_add" -> x + y
      [] o = "safe_sub" -> x - y
      [] o = "safe_mul" -> x * y

\* C1: for every integer type and operand pair, safe_add, safe_sub and
\* safe_mul return Ok(r) with r the mathematically exact result when r lies
\* in the type's range, and Err(Overflow) in every other case.
C1_ExactOrOverflow ==
    op \in {"safe_add", "safe_sub", "safe_mul"} =>
        ret = IF InRange(ty, Exact(op, a, b))
              THEN Ok(Exact(op, a, b))
              ELSE Err("Overflow")

C1_Witness ==
    /\ op = "safe_mul" /\ ty.name = "i8" /\ a = MIN(ty) /\ b = -1
    /\ ret = Err("Overflow")

\* C2: for every signed type, safe_div(MIN, -1) returns Err(Overflow).
C2_DivMinByMinusOneIsOverflow ==
    (op = "safe_div" /\ ty.signed /\ a = MIN(ty) /\ b = -1) =>
        ret = Err("Overflow")

\* C3: for every signed type, safe_rem(MIN, -1) returns Err(Overflow).
C3_RemMinByMinusOneIsOverflow ==
    (op = "safe_rem" /\ ty.signed /\ a = MIN(ty) /\ b = -1) =>
        ret = Err("Overflow")

\* C4: for every integer type and every dividend (the signed minimum
\* included), safe_div(a, 0) and safe_rem(a, 0) return Err(DivisionByZero).
C4_ZeroDivisor ==
    (op \in {"safe_div", "safe_rem"} /\ b = 0) => ret = Err("DivisionByZero")

C4_Witness ==
    /\ op = "safe_rem" /\ ty.signed /\ a = MIN(ty) /\ b = 0
    /\ ret = Err("DivisionByZero")

\* q is the quotient of x by y truncated toward zero
IsTruncQuot(q, x, y) ==
    /\ Abs(q) * Abs(y) <= Abs(x)
    /\ Abs(x) < (Abs(q) + 1) * Abs(y)
    /\ (q = 0 \/ Sgn(q) = Sgn(x) * Sgn(y))

\* C5: for b # 0 and (a, b) # (MIN, -1), safe_div returns Ok(q) with q the
\* quotient truncated toward zero and safe_rem returns Ok(r) with
\* r = a - q*b, so that r is zero or has the sign of the dividend.
C5_TruncatedDivRem ==
    (op \in {"safe_div", "safe_rem"} /\ b # 0 /\ ~(a = MIN(ty) /\ b = -1)) =>
        /\ ret.ok
        /\ op = "safe_div" => IsTruncQuot(ret.v, a, b)
        /\ op = "safe_rem" =>
              /\ \E q \in MIN(ty) .. MAX(ty) :
                    IsTruncQuot(q, a, b) /\ ret.v = a - q * b
              /\ (ret.v = 0 \/ Sgn(ret.v) = Sgn(a))

C5_Witness ==
    op = "safe_rem" /\ ty.signed /\ a = -10 /\ b = 3 /\ ret = Ok(-1)

----------------------------------------------------------------------------
(* The syntax trees the macro reads and writes (syn::Expr, syn::Stmt,      *)
(* syn::Block), as far as safe_math_macros/src/lib.rs tells them apart.    *)

Lit(n) == [k |-> "Lit", v |-> n]

Path(id) == [k |-> "Path", id |-> id]

Binary(o, l, r) == [k |-> "Binary", op |-> o, left |-> l, right |-> r]

Index(e, i) == [k |-> "Index", expr |-> e, index |-> i]

Call(f, args) == [k |-> "Call", func |-> f, args |-> args]

MethodCall(e, m, args) == [k |-> "MethodCall", receiver |-> e, method |-> m, args |-> args]

Field(e, f) == [k |-> "Field", base |-> e, member |-> f]

Unary(o, e) == [k |-> "Unary", op |-> o, expr |-> e]

Deref(e) == [k |-> "Unary", op |-> "Deref", expr |-> e]

RefMut(e) == [k |-> "Reference", expr |-> e]

Try(e) == [k |-> "Try", expr |-> e]

Assign(l, r) == [k |-> "Assign", left |-> l, right |-> r]

Block(stmts) == [k |-> "Block", stmts |-> stmts]

\* statements: let ident = init;   expr;   and a block's tail expression
Local(id, e) == [k |-> "Local", ident |-> id, init |-> e]

Semi(e) == [k |-> "Semi", expr |-> e]

TailExpr(e) == [k |-> "TailExpr", expr |-> e]

ArithOps == {"Add", "Sub", "Mul", "Div", "Rem"}

AssignOps == {"AddAssign", "SubAssign", "MulAssign", "DivAssign", "RemAssign"}

\* the base name each arm of fold_expr passes to generate_unique_ident
BaseName(o) ==
    CASE o \in {"Add", "AddAssign"} -> "add"
      [] o \in {"Sub", "SubAssign"} -> "sub"
      [] o \in {"Mul", "MulAssign"} -> "mul"
      [] o \in {"Div", "DivAssign"} -> "div"
      [] o \in {"Rem", "RemAssign"} -> "rem"

SafeFnDivForRem(o) == "safe_" \o (IF o = "Rem" THEN "div" ELSE BaseName(o))

\* the free function each arm of fold_expr emits a call of
SafeFn(o) == "safe_" \o BaseName(o)

----------------------------------------------------------------------------
(* safe_math_macros/src/lib.rs *)

\* lib.rs 8-12: the identifier is the base name between a fixed prefix and a
\* fixed suffix
generate_unique_ident(base) == "__safe_math_" \o base \o "_tmp"

\* lib.rs 97: the targets that get a temporary reference
IsTmpTargetCallOnly(left) == left.k = "Call"

IsTmpTarget(left) == left.k \in {"Index", "Call"}

TmpBlockStoreFirst(o, tmp_var, left, right) ==
    Block(<< Local(tmp_var, RefMut(left)),
             Semi(Assign(Deref(Path(tmp_var)), right)),
             Semi(Assign(Deref(Path(tmp_var)),
                         Try(Call(SafeFn(o), <<Deref(Path(tmp_var)), right>>)))) >>)

TmpBlockValueFirst(o, tmp_var, left, right) ==
    Block(<< Local("__value", right),
             Local(tmp_var, RefMut(left)),
             Semi(Assign(Deref(Path(tmp_var)),
                         Try(Call(SafeFn(o), <<Deref(Path(tmp_var)),
                                               Path("__value")>>)))) >>)

PlainAssignSwapped(o, left, right) ==
    Assign(left, Try(Call(SafeFn(o), <<right, left>>)))

\* lib.rs 98-102: let tmp = &mut left; *tmp = safe_op(*tmp, right)?;
TmpBlock(o, tmp_var, left, right) ==
    Block(<< Local(tmp_var, RefMut(left)),
             Semi(Assign(Deref(Path(tmp_var)),
                         Try(Call(SafeFn(o), <<Deref(Path(tmp_var)), right>>)))) >>)

\* lib.rs 105: left = safe_op(left, right)?
PlainAssign(o, left, right) ==
    Assign(left, Try(Call(SafeFn(o), <<left, right>>)))

SafeCallSwapped(o, left, right) == Try(Call(SafeFn(o), <<right, left>>))

\* lib.rs 45: safe_op(left, right)?
SafeCall(o, left, right) == Try(Call(SafeFn(o), <<left, right>>))

RECURSIVE fold_expr(_)
RECURSIVE fold_stmts(_)
RECURSIVE fold_args(_)

\* lib.rs 28-195: MathRewriter::fold_expr
fold_expr(e) ==
    CASE e.k = "Binary" /\ e.op \in ArithOps ->
            LET left  == fold_expr(e.left)
                right == fold_expr(e.right)
            IN  SafeCall(e.op, left, right)
      [] e.k = "Binary" /\ e.op \in AssignOps ->
            LET left  == fold_expr(e.left)
                right == fold_expr(e.right)
            IN  IF IsTmpTarget(left)
                THEN TmpBlock(e.op, generate_unique_ident(BaseName(e.op)),
                              left, right)
                ELSE PlainAssign(e.op, left, right)
      \* lib.rs 193: every other node is rebuilt by syn::fold::fold_expr,
      \* which folds its sub-expressions with this same function
      [] e.k = "Binary" -> Binary(e.op, fold_expr(e.left), fold_expr(e.right))
      [] e.k = "Index" -> Index(fold_expr(e.expr), fold_expr(e.index))
      [] e.k = "Call" -> Call(e.func, fold_args(e.args))
      [] e.k = "MethodCall" ->
            MethodCall(fold_expr(e.receiver), e.method, fold_args(e.args))
      [] e.k = "Field" -> Field(fold_expr(e.base), e.member)
      [] e.k = "Unary" -> [e EXCEPT !.expr = fold_expr(e.expr)]
      [] e.k = "Reference" -> RefMut(fold_expr(e.expr))
      [] e.k = "Try" -> Try(fold_expr(e.expr))
      [] e.k = "Assign" -> Assign(fold_expr(e.left), fold_expr(e.right))
      [] e.k = "Block" -> Block(fold_stmts(e.stmts))
      [] OTHER -> e

fold_args_untouched(es) == es

fold_stmts_as_semi(ss) ==
    [i \in 1 .. Len(ss) |->
        Semi(fold_expr(IF ss[i].k = "Local" THEN ss[i].init ELSE ss[i].expr))]

fold_args(es) ==
    IF es = <<>> THEN <<>>
    ELSE <<fold_expr(Head(es))>> \o fold_args(Tail(es))

\* syn::fold::fold_block, fold_stmt and fold_local, reached from lib.rs 197
fold_stmts(ss) ==
    IF ss = <<>> THEN <<>>
    ELSE LET s == Head(ss)
             f == IF s.k = "Local"
                  THEN Local(s.ident, fold_expr(s.init))
                  ELSE [s EXCEPT !.expr = fold_expr(s.expr)]
         IN  <<f>> \o fold_stmts(Tail(ss))

\* lib.rs 23-198
rewrite_block(block) == fold_expr(block)

\* the calls of generate_unique_ident that folding e makes, in order: one in
\* each compound-assignment arm that takes the branch of lib.rs 97
RECURSIVE generated_idents(_)
RECURSIVE generated_idents_seq(_)
generated_idents(e) ==
    CASE e.k = "Binary" ->
            generated_idents(e.left) \o generated_idents(e.right)
            \o (IF e.op \in AssignOps /\ IsTmpTarget(fold_expr(e.left))
                THEN <<generate_unique_ident(BaseName(e.op))>>
                ELSE <<>>)
      [] e.k = "Index" -> generated_idents(e.expr) \o generated_idents(e.index)
      [] e.k = "Call" -> generated_idents_seq(e.args)
      [] e.k = "MethodCall" ->
            generated_idents(e.receiver) \o generated_idents_seq(e.args)
      [] e.k = "Field" -> generated_idents(e.base)
      [] e.k \in {"Unary", "Reference", "Try", "Semi", "TailExpr"} ->
            generated_idents(e.expr)
      [] e.k = "Local" -> generated_idents(e.init)
      [] e.k = "Assign" -> generated_idents(e.left) \o generated_idents(e.right)
      [] e.k = "Block" -> generated_idents_seq(e.stmts)
      [] OTHER -> <<>>

generated_idents_seq(es) ==
    IF es = <<>> THEN <<>>
    ELSE generated_idents(Head(es)) \o generated_idents_seq(Tail(es))


----------------------------------------------------------------------------
(* Running a rewritten body.  The programs are those of the tests: locals  *)
(* of type u8, two arrays, a struct field, RefCells, and helper functions  *)
(* that count their calls (tests/compound_assignment_test.rs 8-15).        *)

U8 == [name |-> "u8", signed |-> FALSE, bits |-> 8]

SafeFns == {"safe_add", "safe_sub", "safe_mul", "safe_div", "safe_rem"}

\* impls.rs 50, 57-78: the bound T: SafeAdd .. T: SafeRem of each free function
BoundOf(f) ==
    CASE f = "safe_add" -> "SafeAdd"
      [] f = "safe_sub" -> "SafeSub"
      [] f = "safe_mul" -> "SafeMul"
      [] f = "safe_div" -> "SafeDiv"
      [] f = "safe_rem" -> "SafeRem"

\* the built-in integer types satisfy every bound (impls.rs 101-142); a
\* deriving type satisfies the bounds its derive emitted an impl for
TraitBound(f) == crate = "none" \/ implements(derived.impls, BoundOf(f))

\* lib.rs 45-85, 101-185: the call the macro emitted, on operands of the
\* function's integer type, or on operands of the deriving type
ApplySafe(f, x, y) ==
    IF crate # "none" THEN call_method(derived.impls, BoundOf(f), f, ty, x, y)
    ELSE
    CASE f = "safe_add" -> safe_add(ty, x, y)
      [] f = "safe_sub" -> safe_sub(ty, x, y)
      [] f = "safe_mul" -> safe_mul(ty, x, y)
      [] f = "safe_div" -> safe_div(ty, x, y)
      [] f = "safe_rem" -> safe_rem(ty, x, y)

UserFns == {"get_index", "get_val", "next_val", "get_mut", "get_s", "after"}

Elem(base, i) == base \o "[" \o ToString(i) \o "]"

\* history of a run: the position in the trace of the first checked operation
\* that failed (0 while none has), its error, and the store at that moment
NoFail == [at |-> 0, err |-> "none", store |-> <<>>]

\* the locals of a test function: t0 is the value of every target location,
\* y0 the value of the local y
InitStore(t0, y0) ==
    "x" :> t0 @@ "y" :> y0 @@ "__safe_math_add_tmp" :> 1
    @@ "arr[0]" :> t0 @@ "arr[1]" :> 20 @@ "arr[2]" :> 30
    @@ "brr[0]" :> 40
    @@ "array[0]" :> t0 @@ "cell" :> t0 @@ "s.f" :> t0

\* the memory a test function starts with; store0 keeps the store it
\* started with
InitMem(t0, y0) ==
    [ store |-> InitStore(t0, y0),
      store0 |-> InitStore(t0, y0),
      refs |-> <<>>,
      borrowed |-> {},
      calls |-> [f \in UserFns \cup {"borrow_mut"} |-> 0],
      trace |-> <<>>,
      ntmp |-> 0,
      fail |-> NoFail,
      errty |-> "SafeMathError" ]

\* the result of evaluating an expression: how control leaves it, the value,
\* and the memory afterwards
VInt(n, m) == [ctl |-> "ok", kind |-> "int", n |-> n, loc |-> "", res |-> NoResult, mem |-> m]

VRef(l, m) == [ctl |-> "ok", kind |-> "ref", n |-> 0, loc |-> l, res |-> NoResult, mem |-> m]

VUnit(m) == [ctl |-> "ok", kind |-> "unit", n |-> 0, loc |-> "", res |-> NoResult, mem |-> m]

VResult(r, m) == [ctl |-> "ok", kind |-> "result", n |-> 0, loc |-> "", res |-> r, mem |-> m]

\* ctl is "return" (the ? operator returned res from the function), "panic",
\* or "rejected" (the expression does not type-check: rustc rejects the body)
Stop(ctl, r, m) == [ctl |-> ctl, kind |-> "unit", n |-> 0, loc |-> "", res |-> r, mem |-> m]

Called(f, m) == [m EXCEPT !.calls[f] = @ + 1, !.trace = Append(@, f)]

\* a call of safe_add .. safe_rem returned r: the call joins the trace, and
\* the first failure is remembered
SafeCalled(f, r, m) ==
    [m EXCEPT !.trace = Append(@, f),
              !.fail = IF @.at = 0 /\ ~r.ok
                       THEN [at |-> Len(m.trace) + 1, err |-> r.err, store |-> m.store]
                       ELSE @]

\* error.rs 62-64: impl From<SafeMathError> for (), and the identity
\* conversion of an error into its own type
From(e, errty) == IF errty = "()" THEN "()" ELSE e

TryBranchUnwrapOrDefault(r) == VInt(r.res.v, r.mem)

\* lib.rs 45: the ? after the emitted call yields the value of Ok and
\* returns the Err, converted to the error type of the function, from the
\* function; in a function whose return type is no Result (errty "none")
\* rustc rejects the ?
TryBranch(r) ==
    IF r.mem.errty = "none" THEN Stop("rejected", NoResult, r.mem)
    ELSE IF r.res.ok THEN VInt(r.res.v, r.mem)
    ELSE Stop("return", Err(From(r.res.err, r.mem.errty)), r.mem)

\* tests/compound_assignment_test.rs 11-15 (get_index) and helpers like it:
\* each counts its calls; get_index returns the count before the call
UserCall(f, m) ==
    CASE f = "get_index" -> VInt(m.calls["get_index"], Called(f, m))
      [] f = "get_val"   -> VInt(7, Called(f, m))
      [] f = "next_val"  -> VInt(1, Called(f, m))
      [] f = "get_mut"   -> VRef("x", Called(f, m))
      [] f = "get_s"     -> VRef("s", Called(f, m))
      [] f = "after"     -> VUnit(Called(f, m))
      [] OTHER           -> Stop("rejected", NoResult, m)

\* RefCell::borrow_mut (tests/unit_test.rs 54-55): panics while a guard of
\* the same cell is alive
BorrowMut(cell, m) ==
    IF cell \in m.borrowed
    THEN Stop("panic", NoResult, Called("borrow_mut", m))
    ELSE VRef(cell, [Called("borrow_mut", m) EXCEPT !.borrowed = @ \cup {cell}])

IsPlaceExpr(e) ==
    \/ e.k \in {"Path", "Index", "Field"}
    \/ e.k = "Unary" /\ e.op = "Deref"

RECURSIVE Eval(_, _)
RECURSIVE EvalPlace(_, _)
RECURSIVE EvalBase(_, _)
RECURSIVE EvalArgs(_, _)
RECURSIVE EvalStmts(_, _)

\* the operand of an index or field expression: a local aggregate, or an
\* expression that yields a reference to one
EvalBase(e, m) ==
    IF e.k = "Path" /\ e.id \notin DOMAIN m.refs
    THEN VRef(e.id, m)
    ELSE LET r == Eval(e, m)
         IN  IF r.ctl # "ok" \/ r.kind = "ref" THEN r
             ELSE Stop("rejected", NoResult, r.mem)

\* the location a place expression denotes (in loc)
EvalPlace(e, m) ==
    CASE e.k = "Path" ->
            IF e.id \notin DOMAIN m.refs /\ e.id \in DOMAIN m.store
            THEN VRef(e.id, m)
            ELSE Stop("rejected", NoResult, m)
      [] e.k = "Unary" /\ e.op = "Deref" ->
            LET r == Eval(e.expr, m)
            IN  IF r.ctl # "ok" \/ r.kind = "ref" THEN r
                ELSE Stop("rejected", NoResult, r.mem)
      [] e.k = "Index" ->
            LET bs == EvalBase(e.expr, m)
                i  == Eval(e.index, bs.mem)
            IN  IF bs.ctl # "ok" THEN bs
                ELSE IF i.ctl # "ok" THEN i
                ELSE IF i.kind # "int" THEN Stop("rejected", NoResult, i.mem)
                ELSE IF Elem(bs.loc, i.n) \in DOMAIN i.mem.store
                THEN VRef(Elem(bs.loc, i.n), i.mem)
                ELSE Stop("panic", NoResult, i.mem)
      [] e.k = "Field" ->
            LET bs == EvalBase(e.base, m)
            IN  IF bs.ctl # "ok" THEN bs
                ELSE VRef(bs.loc \o "." \o e.member, bs.mem)
      [] OTHER -> Stop("rejected", NoResult, m)

\* the arguments of a call, left to right
EvalArgs(es, m) ==
    IF es = <<>> THEN [stop |-> FALSE, r |-> VUnit(m), vals |-> <<>>]
    ELSE LET h == Eval(Head(es), m)
         IN  IF h.ctl # "ok" THEN [stop |-> TRUE, r |-> h, vals |-> <<>>]
             ELSE LET t == EvalArgs(Tail(es), h.mem)
                  IN  [t EXCEPT !.vals = <<h>> \o @]

Eval(e, m) ==
    CASE e.k = "Lit" -> VInt(e.v, m)
      [] e.k = "Path" ->
            IF e.id \in DOMAIN m.refs THEN VRef(m.refs[e.id], m)
            ELSE IF e.id \in DOMAIN m.store THEN VInt(m.store[e.id], m)
            ELSE Stop("rejected", NoResult, m)
      [] e.k \in {"Index", "Field"} \/ (e.k = "Unary" /\ e.op = "Deref") ->
            LET p == EvalPlace(e, m)
            IN  IF p.ctl # "ok" THEN p
                ELSE IF p.loc \in DOMAIN p.mem.store
                THEN VInt(p.mem.store[p.loc], p.mem)
                ELSE Stop("rejected", NoResult, p.mem)
      [] e.k = "Call" ->
            LET as == EvalArgs(e.args, m)
            IN  IF as.stop THEN as.r
                ELSE IF e.func \in SafeFns
                THEN IF ~TraitBound(e.func)
                     THEN Stop("rejected", NoResult, as.r.mem)
                     ELSE IF Len(as.vals) = 2 /\ as.vals[1].kind = "int"
                          /\ as.vals[2].kind = "int"
                     THEN LET res == ApplySafe(e.func, as.vals[1].n, as.vals[2].n)
                          IN  VResult(res, SafeCalled(e.func, res, as.r.mem))
                     ELSE Stop("rejected", NoResult, as.r.mem)
                \* Ok(value), the tail of the test functions
                ELSE IF e.func = "Ok"
                THEN IF Len(as.vals) = 1 /\ as.vals[1].kind = "int"
                     THEN VResult(Ok(as.vals[1].n), as.r.mem)
                     ELSE Stop("rejected", NoResult, as.r.mem)
                ELSE UserCall(e.func, as.r.mem)
      [] e.k = "MethodCall" ->
            IF e.method = "borrow_mut" /\ e.receiver.k = "Path"
            THEN BorrowMut(e.receiver.id, m)
            ELSE Stop("rejected", NoResult, m)
      [] e.k = "Try" ->
            LET r == Eval(e.expr, m)
            IN  IF r.ctl # "ok" THEN r
                ELSE IF r.kind # "result" THEN Stop("rejected", NoResult, r.mem)
                ELSE TryBranch(r)
      \* the assigned value is evaluated first, then the assignee
      [] e.k = "Assign" ->
            LET r == Eval(e.right, m)
                p == EvalPlace(e.left, r.mem)
            IN  IF r.ctl # "ok" THEN r
                ELSE IF r.kind # "int" THEN Stop("rejected", NoResult, r.mem)
                ELSE IF p.ctl # "ok" THEN p
                ELSE VUnit([p.mem EXCEPT !.store[p.loc] = r.n])
      \* &mut of a place borrows it; &mut of a value borrows a fresh temporary
      [] e.k = "Reference" ->
            IF IsPlaceExpr(e.expr) THEN EvalPlace(e.expr, m)
            ELSE LET r == Eval(e.expr, m)
                     t == "tmp#" \o ToString(r.mem.ntmp)
                 IN  IF r.ctl # "ok" THEN r
                     ELSE IF r.kind # "int" THEN Stop("rejected", NoResult, r.mem)
                     ELSE VRef(t, [r.mem EXCEPT !.store = (t :> r.n) @@ @,
                                                !.ntmp = @ + 1])
      \* the bindings and the guards of a block end with it
      [] e.k = "Block" ->
            LET r == EvalStmts(e.stmts, m)
            IN  [r EXCEPT !.mem.refs = m.refs, !.mem.borrowed = m.borrowed]
      [] OTHER -> Stop("rejected", NoResult, m)

EvalStmts(ss, m) ==
    IF ss = <<>> THEN VUnit(m)
    ELSE LET s == Head(ss)
             r == Eval(IF s.k = "Local" THEN s.init ELSE s.expr, m)
         IN  IF r.ctl # "ok" THEN r
             ELSE IF s.k = "Local"
             THEN IF r.kind = "ref"
                  THEN EvalStmts(Tail(ss),
                           [r.mem EXCEPT !.refs = (s.ident :> r.loc) @@ @])
                  ELSE IF r.kind = "int"
                  THEN EvalStmts(Tail(ss),
                           [r.mem EXCEPT !.store = (s.ident :> r.n) @@ @])
                  ELSE Stop("rejected", NoResult, r.mem)
             ELSE IF s.k = "Semi"
             \* the temporaries of an expression statement are dropped at its end
             THEN EvalStmts(Tail(ss), [r.mem EXCEPT !.borrowed = m.borrowed])
             ELSE r


----------------------------------------------------------------------------
(* The macro and the rewritten function as a state machine: a function     *)
(* body holding one compound assignment is expanded by #[safe_math], the   *)
(* expanded function is run, and the same macro process goes on to the     *)
(* next annotated function.                                                *)

\* the targets of the compound assignment
Targets ==
    { Path("x"),                                          \* x
      Index(Path("arr"), Lit(0)),                         \* arr[0]
      Index(Path("arr"), Call("get_index", <<>>)),        \* arr[get_index()]
      Call("get_val", <<>>),                              \* get_val()
      Field(Path("s"), "f"),                              \* s.f
      Field(Call("get_s", <<>>), "f"),                    \* get_s().f
      Deref(Call("get_mut", <<>>)),                       \* *get_mut()
      Index(MethodCall(Path("array"), "borrow_mut", <<>>), Lit(0)),
                                                          \* array.borrow_mut()[0]
      Deref(MethodCall(Path("cell"), "borrow_mut", <<>>)) \* *cell.borrow_mut()
    }

\* the values assigned
Values ==
    { Lit(0), Lit(2),
      Path("y"),
      Path("__safe_math_add_tmp"),
      Call("next_val", <<>>),
      Binary("Add", Path("y"), Lit(1)),                   \* y + 1
      Block(<< Semi(Binary("AddAssign", Index(Path("brr"), Lit(0)), Lit(1))),
               TailExpr(Lit(2)) >>)                       \* { brr[0] += 1; 2 }
    }

\* { target op= value; after(); }
Items ==
    { Block(<< Semi(Binary(o, t, v)), Semi(Call("after", <<>>)) >>) :
        o \in AssignOps, t \in Targets, v \in Values }

InitMems == { InitMem(t0, y0) : t0 \in {10, 254}, y0 \in {3, 255} }

OpsIdle ==
    /\ ty = U8
    /\ a = 0
    /\ b = 0
    /\ op = "idle"
    /\ ret = NoResult

InitMacro ==
    /\ OpsIdle
    /\ DeriveIdle
    /\ ThreadsIdle
    /\ item \in Items
    /\ out = <<>>
    /\ idents = <<>>
    /\ nfn = 0
    /\ phase = "source"
    /\ mem \in InitMems
    /\ outcome = NoResult

\* lib.rs 14-21: safe_math replaces the function's block by rewrite_block of it
Expand ==
    /\ phase = "source"
    /\ out' = rewrite_block(item)
    /\ idents' = idents \o generated_idents(item)
    /\ nfn' = nfn + 1
    /\ phase' = "expanded"
    /\ UNCHANGED <<item, mem, outcome>>
    /\ UNCHANGED opsVars
    /\ UNCHANGED deriveVars
    /\ UNCHANGED threads

\* a call of the expanded function: the Ok(..) the body ends with (Ok(())
\* when it ends with a statement), the error of the first failing ?, a panic,
\* or no run at all when rustc rejects it
Run ==
    /\ phase = "expanded"
    /\ LET r == Eval(out, mem)
       IN  /\ mem' = IF r.ctl = "rejected" THEN mem ELSE r.mem
           /\ outcome' = CASE r.ctl = "ok" /\ r.kind = "result" -> r.res
                           [] r.ctl = "ok" -> Ok(0)
                           [] r.ctl = "return" -> r.res
                           [] OTHER -> Err(r.ctl)
    /\ phase' = "returned"
    /\ UNCHANGED <<item, out, idents, nfn>>
    /\ UNCHANGED opsVars
    /\ UNCHANGED deriveVars
    /\ UNCHANGED threads

\* the macro process is invoked on the next annotated function of the crate
NextFunction ==
    /\ phase = "returned"
    /\ nfn < MaxFns
    /\ item' \in Items
    /\ mem' \in InitMems
    /\ out' = <<>>
    /\ outcome' = NoResult
    /\ phase' = "source"
    /\ UNCHANGED <<idents, nfn>>
    /\ UNCHANGED opsVars
    /\ UNCHANGED deriveVars
    /\ UNCHANGED threads

NextMacro ==
    \/ Expand
    \/ Run
    \/ NextFunction

SpecMacro == InitMacro /\ [][NextMacro]_vars


----------------------------------------------------------------------------
(* Claims about the compound-assignment rewrite *)

\* the compound assignment of the function under expansion, and what the
\* macro emitted in its place
Statement == item.stmts[1].expr

Rewritten == out.stmts[1].expr

Ran == phase = "returned" /\ outcome.err # "rejected"

\* the functions and methods the targets call; no value calls them
TargetFns == {"get_index", "get_val", "get_mut", "get_s", "borrow_mut"}

\* C6: the target of a compound assignment is evaluated at most once per
\* execution of the rewritten statement, whatever its shape: no function
\* the target calls is called a second time.
C6_TargetEvaluatedAtMostOnce ==
    Ran => \A f \in TargetFns : mem.calls[f] <= 1

\* C7: an index computed by a side-effecting function is computed exactly
\* once per execution of the rewritten statement, whether the checked
\* operation succeeds or fails.
C7_IndexFunctionCalledOnce ==
    (Ran /\ Statement.left = Index(Path("arr"), Call("get_index", <<>>))) =>
        mem.calls["get_index"] = 1

C7_Witness ==
    /\ Ran
    /\ Statement.left = Index(Path("arr"), Call("get_index", <<>>))
    /\ Statement.op = "AddAssign"
    /\ outcome = Err("Overflow")
    /\ mem.calls["get_index"] = 1

\* the two-statement block: let tmp = &mut target; *tmp = safe_op(*tmp, v)?;
IsTwoStatementBlock(e) ==
    /\ e.k = "Block"
    /\ Len(e.stmts) = 2
    /\ e.stmts[1].k = "Local"
    /\ e.stmts[1].init.k = "Reference"
    /\ e.stmts[2].k = "Semi"
    /\ e.stmts[2].expr.k = "Assign"
    /\ e.stmts[2].expr.left = Deref(Path(e.stmts[1].ident))
    /\ e.stmts[2].expr.right.k = "Try"
    /\ e.stmts[2].expr.right.expr.k = "Call"
    /\ e.stmts[2].expr.right.expr.func \in SafeFns
    /\ e.stmts[2].expr.right.expr.args[1] = Deref(Path(e.stmts[1].ident))

\* C8: every compound assignment, whatever the form of its target, is
\* rewritten to the same two-statement block.
C8_UniformTwoStatementBlock ==
    phase \in {"expanded", "returned"} => IsTwoStatementBlock(Rewritten)

\* C9: any two temporary identifiers generated within one compilation unit
\* are distinct, for nested and for sequential rewrites.
C9_GeneratedIdentsDistinct ==
    \A i, j \in DOMAIN idents : i # j => idents[i] # idents[j]

\* the variables an expression names
RECURSIVE path_idents(_)
RECURSIVE path_idents_seq(_)
path_idents(e) ==
    CASE e.k = "Path" -> {e.id}
      [] e.k = "Binary" -> path_idents(e.left) \cup path_idents(e.right)
      [] e.k = "Index" -> path_idents(e.expr) \cup path_idents(e.index)
      [] e.k = "Call" -> path_idents_seq(e.args)
      [] e.k = "MethodCall" -> path_idents(e.receiver) \cup path_idents_seq(e.args)
      [] e.k = "Field" -> path_idents(e.base)
      [] e.k \in {"Unary", "Reference", "Try", "Semi", "TailExpr"} -> path_idents(e.expr)
      [] e.k = "Local" -> path_idents(e.init)
      [] e.k = "Assign" -> path_idents(e.left) \cup path_idents(e.right)
      [] e.k = "Block" -> path_idents_seq(e.stmts)
      [] OTHER -> {}

path_idents_seq(es) ==
    IF es = <<>> THEN {}
    ELSE path_idents(Head(es)) \cup path_idents_seq(Tail(es))

\* C10: a generated temporary never captures a user identifier: no variable
\* the value expression names is bound by the let the rewrite puts around
\* it, and the rewritten function is accepted and run with the user's
\* variable as the operand.
C10_NoCapture ==
    phase = "returned" =>
        /\ Rewritten.k = "Block" =>
              Rewritten.stmts[1].ident \notin path_idents(Statement.right)
        /\ outcome.err # "rejected"


----------------------------------------------------------------------------
(* The generated equivalence tests (tests/generated/generator.rs) and the  *)
(* unit-test functions as a second family of function bodies: a body with  *)
(* arithmetic nested in operands, call arguments, index expressions and    *)
(* compound assignments is expanded and then called on operands of one of  *)
(* the integer types.                                                      *)

\* generator.rs 73: the parameters are a1, a2, ...
ArgName(i) == "a" \o ToString(i)

\* generator.rs 57: expr after k operations, ((a1 op1 a2) op2 a3) ...
RECURSIVE expr(_, _)
expr(ops, k) ==
    IF k = 0 THEN Path(ArgName(1))
    ELSE Binary(ops[k], expr(ops, k - 1), Path(ArgName(k + 1)))

\* generator.rs 13-19: the checked method of each operator
CHECKED_OPERATORS(t, o, x, y) ==
    CASE o = "Add" -> checked_add(t, x, y)
      [] o = "Sub" -> checked_sub(t, x, y)
      [] o = "Mul" -> checked_mul(t, x, y)
      [] o = "Div" -> checked_div(t, x, y)
      [] o = "Rem" -> checked_rem(t, x, y)

\* generator.rs 59: expr_safe after k operations,
\* a1.checked_op1(a2).ok_or(())?.checked_op2(a3).ok_or(())? ...
RECURSIVE expr_safe(_, _, _, _)
expr_safe(t, ops, args, k) ==
    IF k = 0 THEN Ok(args[1])
    ELSE LET prev == expr_safe(t, ops, args, k - 1)
         IN  IF ~prev.ok THEN prev
             ELSE ok_or(CHECKED_OPERATORS(t, ops[k], prev.v, args[k + 1]), "()")

\* generator.rs 108-113: #[safe_math] fn with_macro(..) { let result = expr; Ok(result) }
with_macro(ops) ==
    Block(<< Local("result", expr(ops, Len(ops))),
             TailExpr(Call("Ok", <<Path("result")>>)) >>)

\* generator.rs 116-119: fn with_checked(..) { let result = expr_safe; Ok(result) }
with_checked(t, ops, args) == expr_safe(t, ops, args, Len(ops))

\* generator.rs 72-81: the operators of a chain of n operands
ChainOps(n) == [1 .. n - 1 -> ArithOps]

ChainItems(n) == { with_macro(ops) : ops \in ChainOps(n) }

\* tests/common/mod.rs 8-10 and its like: Ok(a1 op a2)
CallArgItems ==
    { Block(<< TailExpr(Call("Ok", <<Binary(o, Path("a1"), Path("a2"))>>)) >>) :
        o \in ArithOps }

\* Ok(a1 op1 (a2 op2 a3))
RightNestedItems ==
    { Block(<< TailExpr(Call("Ok",
                 <<Binary(o1, Path("a1"), Binary(o2, Path("a2"), Path("a3")))>>)) >>) :
        o1 \in ArithOps, o2 \in ArithOps }

\* arr[1 op 1] op2= a1 op a2; Ok(arr[0])
IndexItems ==
    { Block(<< Semi(Binary(ao, Index(Path("arr"), Binary(o, Lit(1), Lit(1))),
                           Binary(o, Path("a1"), Path("a2")))),
               TailExpr(Call("Ok", <<Index(Path("arr"), Lit(0))>>)) >>) :
        ao \in AssignOps, o \in ArithOps }

\* Ok(get_val() op next_val()) and Ok((a1 op1 a2) op2 next_val()): operands
\* that count their calls, as get_index of compound_assignment_test.rs does
OrderItems ==
    { Block(<< TailExpr(Call("Ok",
                 <<Binary(o, Call("get_val", <<>>), Call("next_val", <<>>))>>)) >>) :
        o \in ArithOps }
    \cup
    { Block(<< TailExpr(Call("Ok",
                 <<Binary(o2, Binary(o1, Path("a1"), Path("a2")),
                          Call("next_val", <<>>))>>)) >>) :
        o1 \in ArithOps, o2 \in ArithOps }

\* tests/trybuild.rs 6 (bad_return_type): fn f(a1: T, a2: T) -> T { a1 op a2 }
PlainReturnItems ==
    { Block(<< TailExpr(Binary(o, Path("a1"), Path("a2"))) >>) : o \in ArithOps }

\* the bodies with n parameters
Bodies(n) ==
    ChainItems(n) \cup (IF n = 2 THEN CallArgItems \cup IndexItems \cup PlainReturnItems
                                       \cup OrderItems
                        ELSE IF n = 3 THEN RightNestedItems ELSE {})

\* generator.rs 84-100: the inputs; here the values around which the checked
\* primitives change their answer
Inputs(t) == IF t.signed THEN {MIN(t), -1, 0, 2} ELSE {0, 1, 2, MAX(t)}

\* the parameters and locals of a test function called with args
BodyStore(args) ==
    [ nm \in { ArgName(i) : i \in 1 .. Len(args) } |->
        args[CHOOSE i \in 1 .. Len(args) : ArgName(i) = nm] ]
    @@ ("arr[0]" :> 10 @@ "arr[1]" :> 20 @@ "arr[2]" :> 30)

\* the memory of a test function called with args; its return type is
\* Result<T, ()>, and store0 keeps the store it started with
BodyMem(args) ==
    [ store |-> BodyStore(args),
      store0 |-> BodyStore(args),
      refs |-> <<>>,
      borrowed |-> {},
      calls |-> [f \in UserFns \cup {"borrow_mut"} |-> 0],
      trace |-> <<>>,
      ntmp |-> 0,
      fail |-> NoFail,
      errty |-> "()" ]

\* the return type of the function: Result<T, ()>, or T for PlainReturnItems
SigMem(body, args) ==
    IF body \in PlainReturnItems THEN [BodyMem(args) EXCEPT !.errty = "none"]
    ELSE BodyMem(args)

\* the index arithmetic of IndexItems is on usize literals, on which usize
\* and u8 agree, so these bodies are run with u8 parameters
InitBody ==
    /\ ty \in IntTypes
    /\ a = 0
    /\ b = 0
    /\ op = "idle"
    /\ ret = NoResult
    /\ \E n \in 2 .. MaxOperands :
          /\ item \in Bodies(n)
          /\ mem \in { SigMem(item, args) : args \in [1 .. n -> Inputs(ty)] }
    /\ item \in IndexItems => ty = U8
    /\ DeriveIdle
    /\ ThreadsIdle
    /\ out = <<>>
    /\ idents = <<>>
    /\ nfn = 0
    /\ phase = "source"
    /\ outcome = NoResult

NextBody ==
    \/ Expand
    \/ Run

SpecBody == InitBody /\ [][NextBody]_vars


----------------------------------------------------------------------------
(* Deriving SafeMathOps as a state machine: a type with its attributes is  *)
(* handed to the derive; when the derive accepts it, the generated methods *)
(* are called on two values of the type, or a #[safe_math] function that   *)
(* takes two values of the type is written, expanded and called.           *)

I8 == [name |-> "i8", signed |-> TRUE, bits |-> 8]

\* the arguments of #[SafeMathOps(...)] : paths, each the sequence of its
\* segments (tests/ui/bad_derive.rs 5, 10)
Entries ==
    { <<"add">>, <<"sub">>, <<"mul">>, <<"div">>, <<"rem">>,
      <<"unknown">>, <<"ops", "add">> }

\* #[SafeMathOps(args)]
OpsList(args) ==
    [path |-> SAFE_MATH_OPS_ATTRIBUTE_NAME, meta |-> "List", parses |-> TRUE, args |-> args]

\* #[SafeMathOps(1)] : a list whose tokens are not paths
OpsUnparsed ==
    [path |-> SAFE_MATH_OPS_ATTRIBUTE_NAME, meta |-> "List", parses |-> FALSE, args |-> <<>>]

\* #[SafeMathOps]
OpsPath ==
    [path |-> SAFE_MATH_OPS_ATTRIBUTE_NAME, meta |-> "Path", parses |-> TRUE, args |-> <<>>]

\* #[SafeMathOps = "add"]
OpsNameValue ==
    [path |-> SAFE_MATH_OPS_ATTRIBUTE_NAME, meta |-> "NameValue", parses |-> TRUE, args |-> <<>>]

\* #[repr(transparent)] : an attribute of another name
OtherAttr ==
    [path |-> "repr", meta |-> "List", parses |-> TRUE, args |-> <<>>]

\* struct Foo(T) with these attributes
DeriveInput(attrs) == [ident |-> "Foo", attrs |-> attrs]

ShortAttrs ==
    { OpsList(<<>>), OpsUnparsed, OpsPath, OpsNameValue, OtherAttr }
    \cup { OpsList(<<e>>) : e \in Entries }

\* the types the derive is applied to: one list of up to MaxEntries
\* arguments, the lists of the example and of all five operations, no
\* attribute (tests/ui/bad_derive.rs 14-15), and two attributes
Requests ==
    { DeriveInput(<<OpsList(args)>>) :
        args \in UNION { [1 .. n -> Entries] : n \in 0 .. MaxEntries } }
    \cup { DeriveInput(<<OpsList(<< <<"add">>, <<"sub">>, <<"mul">>, <<"div">> >>)>>),
           DeriveInput(<<OpsList(<< <<"add">>, <<"sub">>, <<"mul">>, <<"div">>,
                                    <<"rem">> >>)>>),
           DeriveInput(<<>>) }
    \cup { DeriveInput(<<x, y>>) : x \in ShortAttrs, y \in ShortAttrs }

InitDerive ==
    /\ crate \in DeriveCrates
    /\ input \in Requests
    /\ derived = NoDerive
    /\ ty \in {U8, I8}
    /\ a = 0
    /\ b = 0
    /\ op = "none"
    /\ ret = NoResult
    /\ MacroIdle
    /\ ThreadsIdle

\* derive/mod.rs 12-17: the compiler hands the type to the derive
Derive ==
    /\ crate # "none"
    /\ derived = NoDerive
    /\ derived' = derive_safe_math_ops(crate, input)
    /\ UNCHANGED <<crate, input>>
    /\ UNCHANGED opsVars
    /\ UNCHANGED macroVars
    /\ UNCHANGED threads

\* a.safe_<op>(b) through the generated impl of SafeMathOps
CallDerived ==
    /\ derived.ok
    /\ op = "none"
    /\ phase = "idle"
    /\ \E m \in SafeFns : \E x \in Inputs(ty) : \E y \in Inputs(ty) :
          /\ a' = x
          /\ b' = y
          /\ op' = m
          /\ ret' = call_method(derived.impls, "SafeMathOps", m, ty, x, y)
    /\ UNCHANGED ty
    /\ UNCHANGED macroVars
    /\ UNCHANGED deriveVars
    /\ UNCHANGED threads

\* tests/ui/bad_derive_missing_attributes.rs 23-26, examples/derive/src/
\* main.rs 57-75: #[safe_math] fn f(a1: Foo, a2: Foo) -> Result<Foo, ()> { Ok(a1 op a2) }
WriteFunction ==
    /\ derived.ok
    /\ op = "none"
    /\ phase = "idle"
    /\ item' \in CallArgItems
    /\ mem' \in { BodyMem(args) : args \in [1 .. 2 -> Inputs(ty)] }
    /\ phase' = "source"
    /\ UNCHANGED <<out, idents, nfn, outcome>>
    /\ UNCHANGED opsVars
    /\ UNCHANGED deriveVars
    /\ UNCHANGED threads

NextDerive ==
    \/ Derive
    \/ CallDerived
    \/ WriteFunction
    \/ Expand
    \/ Run

SpecDerive == InitDerive /\ [][NextDerive]_vars


----------------------------------------------------------------------------
(* The library called from independent threads: each thread takes two      *)
(* operands of an integer type and calls one of the free functions; the    *)
(* call runs the checked primitive (impls.rs 94, self.$checked_method) and *)
(* then maps its Option to a Result (ok_or).  The steps of different       *)
(* threads interleave freely.                                              *)

\* the integer types by name
TypeNamed(n) == CHOOSE t \in IntTypes : t.name = n

\* impls.rs 94: self.$checked_method(&rhs)
checked_method_of(f, t, x, y) ==
    CASE f = "safe_add" -> checked_add(t, x, y)
      [] f = "safe_sub" -> checked_sub(t, x, y)
      [] f = "safe_mul" -> checked_mul(t, x, y)
      [] f = "safe_div" -> checked_div(t, x, y)
      [] f = "safe_rem" -> checked_rem(t, x, y)

\* the thread enters safe_<op>(x, y): the operands are passed by value
thread_invoke(f, t, x, y) ==
    [pc |-> "called", ty |-> t.name, op |-> f, a |-> x, b |-> y,
     opt |-> None, ret |-> NoResult]

\* impls.rs 94: the checked primitive on the thread's own operands
thread_check(r) ==
    [r EXCEPT !.pc = "checked",
              !.opt = checked_method_of(r.op, TypeNamed(r.ty), r.a, r.b)]

thread_return_counting(r) ==
    [r EXCEPT !.pc = "returned",
              !.ret = IF \E u \in Threads : threads[u].pc = "returned"
                      THEN Err(impl_safe_ops_err(r.op))
                      ELSE ok_or(r.opt, impl_safe_ops_err(r.op))]

\* impls.rs 94: .ok_or($err), and the return to the caller
thread_return(r) ==
    [r EXCEPT !.pc = "returned",
              !.ret = ok_or(r.opt, impl_safe_ops_err(r.op))]

InitThreads ==
    /\ OpsIdle
    /\ MacroIdle
    /\ DeriveIdle
    /\ ThreadsIdle

Invoke(t) ==
    /\ threads[t].pc = "idle"
    /\ \E f \in SafeFns, tp \in {U8, I8} :
         \E x \in Inputs(tp), y \in Inputs(tp) :
            threads' = [threads EXCEPT ![t] = thread_invoke(f, tp, x, y)]
    /\ UNCHANGED opsVars
    /\ UNCHANGED macroVars
    /\ UNCHANGED deriveVars

Check(t) ==
    /\ threads[t].pc = "called"
    /\ threads' = [threads EXCEPT ![t] = thread_check(@)]
    /\ UNCHANGED opsVars
    /\ UNCHANGED macroVars
    /\ UNCHANGED deriveVars

Return(t) ==
    /\ threads[t].pc = "checked"
    /\ threads' = [threads EXCEPT ![t] = thread_return(@)]
    /\ UNCHANGED opsVars
    /\ UNCHANGED macroVars
    /\ UNCHANGED deriveVars

NextThreads ==
    \/ \E t \in Threads : Invoke(t)
    \/ \E t \in Threads : Check(t)
    \/ \E t \in Threads : Return(t)

SpecThreads == InitThreads /\ [][NextThreads]_vars


----------------------------------------------------------------------------
(* The macro on bodies of every node kind: the compiler hands #[safe_math]  *)
(* a function whose body mixes arithmetic with the operators and node kinds *)
(* fold_expr has no arm for (lib.rs 193).                                   *)

\* syn::BinOp: the comparison, logical, bitwise and shift operators and the
\* compound assignments of the latter
OtherBinOps ==
    {"Lt", "Eq", "And", "Or", "BitAnd", "BitXor", "Shl", "Shr",
     "BitAndAssign", "ShlAssign"}

BinOps == ArithOps \cup AssignOps \cup OtherBinOps

\* a1 op a2, and the operand-free expressions
InnerExprs ==
    { Binary(o, Path("a1"), Path("a2")) : o \in BinOps }
    \cup { Path("a1"), Lit(1), Unary("Neg", Path("a1")) }

\* the expressions that hold e as an operand
Around(e) ==
    { e, Unary("Neg", e), Unary("Not", e), Deref(e), RefMut(e), Try(e),
      Call("f", <<Lit(1), e>>), MethodCall(e, "m", <<>>),
      MethodCall(Path("x"), "m", <<e>>), Field(e, "f"),
      Index(Path("arr"), e), Index(e, Lit(0)),
      Assign(Path("x"), e), Assign(e, Lit(1)),
      Block(<< TailExpr(e) >>) }
    \cup { Binary(o, e, Path("a3")) : o \in BinOps }
    \cup { Binary(o, Path("a3"), e) : o \in BinOps }

\* { let v = e; }   { e; }   { e }
FoldItems ==
    UNION { { Block(<< Local("v", w) >>), Block(<< Semi(w) >>),
              Block(<< Semi(Call("after", <<>>)), TailExpr(w) >>) } :
            w \in UNION { Around(e) : e \in InnerExprs } }

\* the function has not been compiled further than its expansion
InitFold ==
    /\ OpsIdle
    /\ DeriveIdle
    /\ ThreadsIdle
    /\ item \in FoldItems
    /\ out = <<>>
    /\ idents = <<>>
    /\ nfn = 0
    /\ phase = "source"
    /\ mem = <<>>
    /\ outcome = NoResult

NextFold == Expand

SpecFold == InitFold /\ [][NextFold]_vars


----------------------------------------------------------------------------
(* The whole crate: a program calls the checked operations on values of a   *)
(* built-in integer or floating-point type, or derives SafeMathOps for a    *)
(* type of its own and uses that.                                           *)

InitCrate == InitOps \/ InitFloat \/ InitDerive

NextCrate ==
    \/ crate = "none" /\ NextOps
    \/ crate # "none" /\ NextDerive

SpecCrate == InitCrate /\ [][NextCrate]_vars


----------------------------------------------------------------------------
(* Claims about failure propagation and the completeness of the rewrite *)

\* C11: once a checked operation of a rewritten body has failed, the function
\* returns that failure: nothing joins the trace after the failing call, the
\* store is as it was at the failure, the statement after it has not run, and
\* the outcome is the error of that operation, not a success value.
C11_FirstFailureReturns ==
    (Ran /\ mem.fail.at # 0) =>
        /\ outcome = Err(mem.fail.err)
        /\ Len(mem.trace) = mem.fail.at
        /\ mem.store = mem.fail.store
        /\ mem.calls["after"] = 0

\* the target's index function ran, then the addition overflowed
C11_Witness ==
    /\ Ran
    /\ mem.fail.at > 1
    /\ mem.fail.err = "Overflow"
    /\ mem.calls["get_index"] = 1
    /\ outcome = Err("Overflow")

\* the plain arithmetic nodes of a tree
RECURSIVE plain_arith(_)
RECURSIVE plain_arith_seq(_)
plain_arith(e) ==
    CASE e.k = "Binary" ->
            (IF e.op \in ArithOps \cup AssignOps THEN {e} ELSE {})
            \cup plain_arith(e.left) \cup plain_arith(e.right)
      [] e.k = "Index" -> plain_arith(e.expr) \cup plain_arith(e.index)
      [] e.k = "Call" -> plain_arith_seq(e.args)
      [] e.k = "MethodCall" -> plain_arith(e.receiver) \cup plain_arith_seq(e.args)
      [] e.k = "Field" -> plain_arith(e.base)
      [] e.k \in {"Unary", "Reference", "Try", "Semi", "TailExpr"} ->
            plain_arith(e.expr)
      [] e.k = "Local" -> plain_arith(e.init)
      [] e.k = "Assign" -> plain_arith(e.left) \cup plain_arith(e.right)
      [] e.k = "Block" -> plain_arith_seq(e.stmts)
      [] OTHER -> {}

plain_arith_seq(es) ==
    IF es = <<>> THEN {}
    ELSE plain_arith(Head(es)) \cup plain_arith_seq(Tail(es))

\* C12: in the body the Walker emitted there is no plain binary expression
\* of kind Add, Sub, Mul, Div or Rem (nor a compound assignment of those
\* kinds) anywhere: not in call arguments, index expressions, operands of
\* rewritten expressions, or targets and values of compound assignments.
C12_NoPlainArithmeticRemains ==
    phase \in {"expanded", "returned"} => plain_arith(out) = {}

\* a body with arithmetic in an index expression, in the value of a compound
\* assignment and nowhere else has been expanded
C12_Witness ==
    /\ phase = "expanded"
    /\ item \in IndexItems
    /\ Cardinality(plain_arith(item)) = 3
    /\ out.stmts[1].expr.k = "Block"

\* the operators of a left-nested chain, innermost first
RECURSIVE chain_ops(_)
chain_ops(e) ==
    IF e.k = "Binary" THEN Append(chain_ops(e.left), e.op) ELSE <<>>

\* C13: a function whose body is a left-nested chain of 2 to MaxOperands
\* operands returns, once rewritten, exactly what the chain of checked
\* primitives with ok_or(())? returns on the same inputs.
C13_ChainMatchesChecked ==
    (phase = "returned" /\ item.stmts[1].k = "Local") =>
        LET ops == chain_ops(item.stmts[1].init)
            n   == Len(ops) + 1
        IN  /\ item = with_macro(ops)
            /\ n \in 2 .. MaxOperands
            /\ outcome = with_checked(ty, ops, [i \in 1 .. n |-> mem.store[ArgName(i)]])

\* a chain of three operands failed at its second operation
C13_Witness ==
    /\ phase = "returned"
    /\ item = with_macro(<<"Mul", "Div">>)
    /\ mem.store["a3"] = 0
    /\ mem.fail.at = 2
    /\ outcome = Err("()")

----------------------------------------------------------------------------
(* Claims about the derive *)

KnownOps == {"add", "sub", "mul", "div", "rem"}

\* the attributes of the type that are named SafeMathOps
OpsAttrs(inp) ==
    { j \in 1 .. Len(inp.attrs) : inp.attrs[j].path = "SafeMathOps" }

\* the positions <<attribute, argument>> of the operation list of a type
EntryPositions(inp) ==
    { <<j, i>> : j \in OpsAttrs(inp), i \in 1 .. MaxEntries + 2 } \cap
    { p \in (1 .. Len(inp.attrs)) \X (1 .. MaxEntries + 2) :
        p[2] <= Len(inp.attrs[p[1]].args) }

EntryAt(inp, p) == inp.attrs[p[1]].args[p[2]]

Before(p, q) == p[1] < q[1] \/ (p[1] = q[1] /\ p[2] < q[2])

\* every SafeMathOps attribute has a list, and there is at least one
HasList(inp) ==
    /\ OpsAttrs(inp) # {}
    /\ \A j \in OpsAttrs(inp) : inp.attrs[j].meta = "List" /\ inp.attrs[j].parses

WellFormed(inp) ==
    /\ HasList(inp)
    /\ EntryPositions(inp) # {}
    /\ \A p \in EntryPositions(inp) : \A q \in EntryPositions(inp) :
          p # q => EntryAt(inp, p) # EntryAt(inp, q)
    /\ \A p \in EntryPositions(inp) :
          \E o \in KnownOps : EntryAt(inp, p) = <<o>>

\* the operations a type requests
Requested(inp) ==
    { o \in KnownOps : \E p \in EntryPositions(inp) : EntryAt(inp, p) = <<o>> }

\* C14: a derivation request is accepted exactly when every SafeMathOps
\* attribute carries a list and the listed operations (over all attributes
\* of the type) are non-empty, without duplicate and all among add, sub, mul,
\* div, rem; so a missing attribute, an attribute without list, an empty
\* list, a duplicate or an unknown identifier is rejected.
C14_AcceptedIffWellFormed ==
    derived # NoDerive => (derived.ok <=> WellFormed(input))

\* two attributes with one operation each were accepted
C14_Witness ==
    /\ derived.ok
    /\ Len(input.attrs) = 2
    /\ Cardinality(Requested(input)) = 2

\* an attribute without a list or not parsing (argument 0), an argument that
\* is not a known identifier, or one that repeats an earlier argument
Malformed(inp, p) ==
    /\ p[1] \in OpsAttrs(inp)
    /\ IF p[2] = 0
       THEN inp.attrs[p[1]].meta # "List" \/ ~inp.attrs[p[1]].parses
       ELSE /\ p \in EntryPositions(inp)
            /\ \/ \A o \in KnownOps : EntryAt(inp, p) # <<o>>
               \/ \E q \in EntryPositions(inp) :
                     Before(q, p) /\ EntryAt(inp, q) = EntryAt(inp, p)

MalformedPositions(inp) ==
    { p \in (1 .. Len(inp.attrs)) \X (0 .. MaxEntries + 2) : Malformed(inp, p) }

\* the first malformed position; <<0, 0>>, the whole type, when the only
\* fault is that no operation is listed
FirstMalformed(inp) ==
    IF MalformedPositions(inp) = {} THEN <<0, 0>>
    ELSE CHOOSE p \in MalformedPositions(inp) :
            \A q \in MalformedPositions(inp) : p = q \/ Before(p, q)

\* C15: a rejected request yields the diagnostic of its first malformed
\* entry and nothing else: no implementation, full or partial, is emitted.
C15_RejectedEmitsOnlyDiagnostic ==
    (derived # NoDerive /\ ~derived.ok) =>
        /\ derived.impls = {}
        /\ derived.diag.kind # "none"
        /\ <<derived.diag.attr, derived.diag.arg>> = FirstMalformed(input)

\* add was collected, then the unknown identifier stopped the generation
C15_Witness ==
    /\ input = DeriveInput(<<OpsList(<< <<"add">>, <<"unknown">>, <<"add">> >>)>>)
    /\ derived.diag = Diagnostic("Unknown operation", 1, 2)
    /\ derived.impls = {}

\* a generated method has been called
CalledDerived == crate # "none" /\ op # "none"

\* the operation of a method safe_<o>
OpOf(m) == CHOOSE o \in KnownOps : "safe_" \o o = m

\* C16: every method of an operation the type did not request returns
\* Err(NotImplemented) for every pair of operands; for a type deriving {sub}
\* only, safe_sub returns Ok(v) exactly when checked_sub returns v and
\* Err(Overflow) when it returns no value.
C16_UnrequestedNotImplemented ==
    CalledDerived =>
        /\ OpOf(op) \notin Requested(input) => ret = Err("NotImplemented")
        /\ (Requested(input) = {"sub"} /\ op = "safe_sub") =>
               ret = ok_or(checked_sub(ty, a, b), "Overflow")

\* a type deriving {sub} only: safe_div of 2 by 0 is NotImplemented
C16_Witness ==
    /\ CalledDerived
    /\ Requested(input) = {"sub"}
    /\ op = "safe_div"
    /\ a = 2
    /\ b = 0
    /\ ret = Err("NotImplemented")

\* C17: for a type that requested div, safe_div returns Ok(v) when
\* checked_div returns v, and when it returns no value Err(DivisionByZero)
\* if the divisor is zero and Err(Overflow) otherwise.
C17_DerivedDivZeroOrOverflow ==
    (CalledDerived /\ op = "safe_div" /\ "div" \in Requested(input)) =>
        ret = IF checked_div(ty, a, b).some THEN Ok(checked_div(ty, a, b).v)
              ELSE IF b = 0 THEN Err("DivisionByZero")
              ELSE Err("Overflow")

\* C18: for a type that requested add, sub, mul or rem, the method returns
\* Ok(v) when the checked primitive returns v and Err(Overflow) when it
\* returns no value; safe_rem too maps "no value" to Overflow.
C18_DerivedNoValueIsOverflow ==
    (CalledDerived /\ op # "safe_div" /\ OpOf(op) \in Requested(input)) =>
        ret = ok_or(checked_method(ty, "checked_" \o OpOf(op), a, b), "Overflow")

\* the arguments of all SafeMathOps attributes of a type, in order
RECURSIVE FlatFrom(_, _)
FlatFrom(inp, j) ==
    IF j > Len(inp.attrs) THEN <<>>
    ELSE (IF j \in OpsAttrs(inp) THEN inp.attrs[j].args ELSE <<>>)
         \o FlatFrom(inp, j + 1)

Flat(inp) == FlatFrom(inp, 1)

\* C19: what the derive emits depends on the set of requested operations
\* only: every reordering of the listed operations (in one attribute or
\* several) is accepted or rejected alike and yields the same implementation.
C19_OrderIndependent ==
    (derived # NoDerive /\ op = "none" /\ phase = "idle" /\ HasList(input)) =>
        LET flat == Flat(input)
        IN  \A pi \in Permutations(1 .. Len(flat)) :
                LET d == derive_safe_math_ops(crate,
                             DeriveInput(<<OpsList([i \in 1 .. Len(flat) |-> flat[pi[i]]])>>))
                IN  d.ok = derived.ok /\ d.impls = derived.impls

\* rem, add, sub in this order were accepted
C19_Witness ==
    /\ derived.ok
    /\ Flat(input) = << <<"rem">>, <<"add">>, <<"sub">> >>
    /\ Requested(input) = {"add", "sub", "rem"}

\* the operation of the function Ok(a1 op a2)
FnOp == BaseName(item.stmts[1].expr.args[1].op)

\* C20: a rewritten function that uses an operation its partially derived
\* operand type did not request is a program that builds, and the function
\* fails when called, with NotImplemented as the error of the checked call.
C20_UnrequestedFailsAtRunTime ==
    (crate # "none" /\ phase = "returned" /\ FnOp \notin Requested(input)) =>
        /\ outcome.err # "rejected"
        /\ ~outcome.ok
        /\ mem.fail.err = "NotImplemented"

\* C21: a function whose declared return type is not a Result is refused by
\* the macro itself: once safe_math has run on it, no rewritten body has been
\* emitted (and a diagnostic stands in its place).
C21_NonResultReturnRefused ==
    (phase # "source" /\ mem.errty = "none") => out = <<>>

\* the plain floating-point operation a op b
PlainFloat(o, x, y) ==
    CASE o = "safe_add" -> float_add(x, y)
      [] o = "safe_sub" -> float_sub(x, y)
      [] o = "safe_mul" -> float_mul(x, y)
      [] o = "safe_div" -> float_div(x, y)
      [] o = "safe_rem" -> float_rem(x, y)

FloatCalled == ty \in FloatTypes /\ op \in SafeFns

TraitMethod(o, t, x, y) ==
    CASE o = "safe_add" -> SafeAdd_safe_add(t, x, y)
      [] o = "safe_sub" -> SafeSub_safe_sub(t, x, y)
      [] o = "safe_mul" -> SafeMul_safe_mul(t, x, y)
      [] o = "safe_div" -> SafeDiv_safe_div(t, x, y)
      [] o = "safe_rem" -> SafeRem_safe_rem(t, x, y)

\* the bundled method SafeMathOps::safe_op(a, b)
BundledMethod(o, t, x, y) ==
    CASE o = "safe_add" -> SafeMathOps_safe_add(t, x, y)
      [] o = "safe_sub" -> SafeMathOps_safe_sub(t, x, y)
      [] o = "safe_mul" -> SafeMathOps_safe_mul(t, x, y)
      [] o = "safe_div" -> SafeMathOps_safe_div(t, x, y)
      [] o = "safe_rem" -> SafeMathOps_safe_rem(t, x, y)

\* C24: for every built-in numeric type, operation and operand pair, the
\* free function safe_op(a, b), the single-operation method a.safe_op(b) and
\* the bundled method SafeMathOps::safe_op(a, b) return the same outcome.
C24_EntryPointsAgree ==
    op \in SafeFns =>
        /\ ret = TraitMethod(op, ty, a, b)
        /\ ret = BundledMethod(op, ty, a, b)

\* the three agree on a division by zero
C24_Witness ==
    /\ op = "safe_div"
    /\ a = 5
    /\ b = 0
    /\ ~ret.ok
    /\ ret = BundledMethod(op, ty, a, b)

\* the threads that returned from a call
Returned == { t \in Threads : threads[t].pc = "returned" }

SameCall(t, u) ==
    /\ threads[t].ty = threads[u].ty
    /\ threads[t].op = threads[u].op
    /\ threads[t].a = threads[u].a
    /\ threads[t].b = threads[u].b

\* equal invocations returned equal results, each the value the operation
\* has on its two operands, and no thread inside a call waits for another
C23_State ==
    /\ \A t \in Returned, u \in Returned :
          SameCall(t, u) => threads[t].ret = threads[u].ret
    /\ \A t \in Returned :
          threads[t].ret = TraitMethod(threads[t].op, TypeNamed(threads[t].ty),
                                       threads[t].a, threads[t].b)
    /\ \A t \in Threads :
          /\ threads[t].pc = "called" => ENABLED Check(t)
          /\ threads[t].pc = "checked" => ENABLED Return(t)

\* a step of one thread changes the state of that thread only
C23_Step ==
    /\ \A t \in Threads, u \in Threads :
          (threads'[t] # threads[t] /\ u # t) => threads'[u] = threads[u]
    /\ UNCHANGED <<opsVars, macroVars, deriveVars>>

RECURSIVE Frame(_, _)
RECURSIVE FrameSeq(_, _)
Frame(e, f) ==
    CASE e.k = "Binary" /\ e.op \in ArithOps ->
            /\ f.k = "Try"
            /\ f.expr.k = "Call"
            /\ Len(f.expr.args) = 2
            /\ Frame(e.left, f.expr.args[1])
            /\ Frame(e.right, f.expr.args[2])
      [] e.k = "Binary" /\ e.op \in AssignOps ->
            \/ /\ f.k = "Assign"
               /\ Frame(e.left, f.left)
               /\ f.right.k = "Try"
               /\ Frame(e.right, f.right.expr.args[2])
            \/ /\ f.k = "Block"
               /\ Len(f.stmts) = 2
               /\ Frame(e.left, f.stmts[1].init.expr)
               /\ Frame(e.right, f.stmts[2].expr.right.expr.args[2])
      [] e.k = "Binary" ->
            /\ f.k = "Binary"
            /\ f.op = e.op
            /\ Frame(e.left, f.left)
            /\ Frame(e.right, f.right)
      [] e.k = "Index" ->
            f.k = "Index" /\ Frame(e.expr, f.expr) /\ Frame(e.index, f.index)
      [] e.k = "Call" ->
            f.k = "Call" /\ f.func = e.func /\ FrameSeq(e.args, f.args)
      [] e.k = "MethodCall" ->
            /\ f.k = "MethodCall"
            /\ f.method = e.method
            /\ Frame(e.receiver, f.receiver)
            /\ FrameSeq(e.args, f.args)
      [] e.k = "Field" ->
            f.k = "Field" /\ f.member = e.member /\ Frame(e.base, f.base)
      [] e.k = "Unary" ->
            f.k = "Unary" /\ f.op = e.op /\ Frame(e.expr, f.expr)
      [] e.k \in {"Reference", "Try", "Semi", "TailExpr"} ->
            f.k = e.k /\ Frame(e.expr, f.expr)
      [] e.k = "Local" ->
            f.k = "Local" /\ f.ident = e.ident /\ Frame(e.init, f.init)
      [] e.k = "Assign" ->
            f.k = "Assign" /\ Frame(e.left, f.left) /\ Frame(e.right, f.right)
      [] e.k = "Block" ->
            f.k = "Block" /\ FrameSeq(e.stmts, f.stmts)
      [] OTHER -> f = e

FrameSeq(es, fs) ==
    /\ Len(es) = Len(fs)
    /\ \A i \in 1 .. Len(es) : Frame(es[i], fs[i])

\* C25: the Walker changes only the binary nodes of kind Add, Sub, Mul, Div
\* and Rem and their compound assignments: a body without any is emitted
\* identical, and every other node (literal, variable, call, comparison,
\* logical, bitwise and shift operator, negation, plain assignment) keeps
\* its kind and its place, with only its arithmetic sub-expressions replaced.
C25_OnlyArithmeticRewritten ==
    phase = "expanded" =>
        /\ Frame(item, out)
        /\ plain_arith(item) = {} => out = item

\* (a1 + a2) < a3; keeps its comparison around the call that replaced a1 + a2
C25_Witness ==
    /\ phase = "expanded"
    /\ item = Block(<< Semi(Binary("Lt", Binary("Add", Path("a1"), Path("a2")),
                                   Path("a3"))) >>)
    /\ out.stmts[1].expr.k = "Binary"
    /\ out.stmts[1].expr.op = "Lt"
    /\ out.stmts[1].expr.left.k = "Try"
    /\ out.stmts[1].expr.right = Path("a3")

----------------------------------------------------------------------------
(* Claims about the effects of a rewritten compound assignment *)

\* the calls of checked operations the run made, in order
SafeCalls == SelectSeq(mem.trace, LAMBDA f : f \in SafeFns)

\* the checked operation of the compound assignment itself was called: it
\* comes after the checked operations of the value expression
CompoundCalled ==
    /\ Ran
    /\ Len(SafeCalls) = Cardinality(plain_arith(Statement.right)) + 1

\* the position of that call in the trace
CompoundAt ==
    CHOOSE i \in DOMAIN mem.trace :
        /\ mem.trace[i] \in SafeFns
        /\ \A j \in DOMAIN mem.trace : (j > i) => mem.trace[j] \notin SafeFns

CompoundFailed == CompoundCalled /\ mem.fail.at = CompoundAt

CompoundSucceeded == CompoundCalled /\ mem.fail.at = 0

\* what evaluating the value expression leaves in location loc that held x:
\* the block { brr[0] += 1; 2 } is the one value that writes, to brr[0]
AfterValue(loc, x) ==
    IF loc = "brr[0]" /\ Statement.right.k = "Block" THEN x + 1 ELSE x

\* C26: when the checked operation of a rewritten compound assignment fails,
\* the target keeps the value it had before the statement and no other
\* variable or array element is modified; the only effects are those of
\* evaluating the target and the value: each function of the target was
\* called once at most, and the rest of the function did not run.
C26_FailureLeavesTargetUntouched ==
    CompoundFailed =>
        /\ \A loc \in DOMAIN mem.store0 :
              mem.store[loc] = AfterValue(loc, mem.store0[loc])
        /\ \A f \in TargetFns : mem.calls[f] <= 1
        /\ mem.calls["after"] = 0

\* arr[get_index()] op= { brr[0] += 1; 2 } failed in its own operation
C26_Witness ==
    /\ CompoundFailed
    /\ Statement.left = Index(Path("arr"), Call("get_index", <<>>))
    /\ Statement.right.k = "Block"
    /\ mem.store["arr[0]"] = mem.store0["arr[0]"]
    /\ mem.store["brr[0]"] = 41
    /\ ~outcome.ok

\* the location a target denotes (get_val() denotes a temporary)
TargetLoc(t) ==
    CASE t = Path("x") -> "x"
      [] t.k = "Index" /\ t.expr = Path("arr") -> "arr[0]"
      [] t.k = "Index" -> "array[0]"
      [] t.k = "Field" -> "s.f"
      [] t = Deref(Call("get_mut", <<>>)) -> "x"
      [] t.k = "Unary" -> "cell"
      [] OTHER -> "none"

\* the value of a value expression in a function that started with store st
ValueOf(v, st) ==
    CASE v.k = "Lit" -> v.v
      [] v.k = "Path" -> st[v.id]
      [] v.k = "Call" -> 1
      [] v.k = "Binary" -> st["y"] + 1
      [] v.k = "Block" -> 2

\* t op v on operands that are not negative, where it has a value
OpValue(o, t, v) ==
    CASE BaseName(o) = "add" -> t + v
      [] BaseName(o) = "sub" -> t - v
      [] BaseName(o) = "mul" -> t * v
      [] BaseName(o) = "div" -> IF v = 0 THEN -1 ELSE t \div v
      [] BaseName(o) = "rem" -> IF v = 0 THEN -1 ELSE t % v

\* C27: when the checked operation of a rewritten compound assignment
\* t op= v succeeds, afterwards the target holds op(old value of t, value of
\* v), the old value as left operand, and every other variable and array
\* element is unchanged (but for what evaluating v wrote); for the five
\* operators, and for variable, field and indexed targets alike.
C27_SuccessWritesTargetOnly ==
    (CompoundSucceeded /\ Statement.left.k \in {"Path", "Field", "Index"}) =>
        LET target == TargetLoc(Statement.left)
        IN  \A loc \in DOMAIN mem.store0 :
               mem.store[loc] =
                  IF loc = target
                  THEN OpValue(Statement.op, mem.store0[loc],
                               ValueOf(Statement.right, mem.store0))
                  ELSE AfterValue(loc, mem.store0[loc])

\* arr[get_index()] -= y succeeded with the old element as left operand
C27_Witness ==
    /\ CompoundSucceeded
    /\ Statement.op = "SubAssign"
    /\ Statement.left = Index(Path("arr"), Call("get_index", <<>>))
    /\ Statement.right = Path("y")
    /\ mem.store0["arr[0]"] = 10
    /\ mem.store["arr[0]"] = 7
    /\ outcome.ok

\* the functions and methods the value expressions call; of the indexed and
\* call targets, arr[0] alone calls none
ValueFns == {"next_val"}

\* C28: in a rewritten compound assignment whose target is an indexed
\* location or a call result, the target is evaluated, with its side
\* effects, before the value is; the checked operation runs after both; so
\* a failure inside the value expression comes after the target's effects.
C28_TargetBeforeValue ==
    (Ran /\ Statement.left.k \in {"Index", "Call"}) =>
        /\ \A i, j \in DOMAIN mem.trace :
              (mem.trace[i] \in TargetFns /\ mem.trace[j] \in ValueFns \cup SafeFns)
                  => i < j
        /\ CompoundCalled =>
              \A i \in DOMAIN mem.trace :
                 mem.trace[i] \in TargetFns \cup ValueFns => i < CompoundAt
        /\ (mem.fail.at # 0 /\ Statement.left # Index(Path("arr"), Lit(0)))
              => \E i \in 1 .. mem.fail.at - 1 : mem.trace[i] \in TargetFns

\* arr[get_index()] += y + 1 failed in y + 1, after get_index() was called
C28_Witness ==
    /\ Ran
    /\ Statement.left = Index(Path("arr"), Call("get_index", <<>>))
    /\ Statement.right = Binary("Add", Path("y"), Lit(1))
    /\ ~CompoundCalled
    /\ mem.trace = <<"get_index", "safe_add">>
    /\ mem.fail.at = 2

\* the binary expression of a body Ok(l op r)
Operation == item.stmts[1].expr.args[1]

\* C29: a rewritten binary expression l op r evaluates the rewritten left
\* operand before the rewritten right operand, each exactly once, and hands
\* them to the checked operation in source order, the left one first; when
\* evaluating the left operand fails, the right operand is not evaluated.
C29_LeftThenRightOnce ==
    (phase = "returned" /\ item \in OrderItems) =>
        IF Operation.left.k = "Call"
        THEN /\ mem.trace = <<"get_val", "next_val", SafeFn(Operation.op)>>
             /\ outcome = Ok(OpValue(Operation.op, 7, 1))
        ELSE IF mem.fail.at = 1
        THEN /\ mem.trace = <<SafeFn(Operation.left.op)>>
             /\ mem.calls["next_val"] = 0
             /\ ~outcome.ok
        ELSE /\ mem.trace = <<SafeFn(Operation.left.op), "next_val",
                              SafeFn(Operation.op)>>
             /\ mem.calls["next_val"] = 1

\* (a1 + a2) - next_val() failed in a1 + a2, and next_val() was not called
C29_Witness ==
    /\ phase = "returned"
    /\ item \in OrderItems
    /\ Operation.op = "Sub"
    /\ Operation.left.k = "Binary"
    /\ Operation.left.op = "Add"
    /\ mem.fail.at = 1
    /\ mem.calls["next_val"] = 0
    /\ outcome = Err("()")

----------------------------------------------------------------------------
(* Claims about the error kinds *)

BuiltinFailed == crate = "none" /\ op \in SafeFns /\ ~ret.ok

====
